---- MODULE Spec2Model ----
(***************************************************************************)
(* braille-rs: BrailleChar (one 2x4 braille cell kept in a u32) and Canvas *)
(* (a row-major Vec<u32> of such cells addressed by raw point coordinates).*)
(*                                                                         *)
(* A u32 is modelled as the set of its bit positions that are 1, so that   *)
(* the full 32-bit width of `!`, `&`, `|` and `^` is kept.                 *)
(***************************************************************************)
EXTENDS Integers, Sequences, FiniteSets, TLC

VARIABLES target, bc, canvas, hist, keep, steps

vars == <<target, bc, canvas, hist, keep, steps>>

----------------------------------------------------------------------------
(* Bounds of the exploration *)

\* calls made on one object under Spec
MaxSteps == 3
\* calls made on one object under SpecPairs (two remembered calls)
MaxPairSteps == 2
\* local coordinates tried on a BrailleChar: x in 0..CellMaxX, y in 0..CellMaxY
CellMaxX == 2
CellMaxY == 5

----------------------------------------------------------------------------
(* u32 arithmetic *)

WordBits == 32

Word == 0 .. (WordBits - 1)

\* the u32 with the value of the literal n (every literal of the source is below 2^31)
U32(n) == {b \in 0 .. (WordBits - 2) : (n \div (2 ^ b)) % 2 = 1}

Not(a) == Word \ a

BitAnd(a, b) == a \cap b

BitOr(a, b) == a \cup b

BitXor(a, b) == (a \ b) \cup (b \ a)

RECURSIVE ToNat(_)
\* the numeric value of a u32 whose bit 31 is clear
ToNat(a) ==
    IF a = {} THEN 0
    ELSE LET b == CHOOSE b \in a : TRUE IN (2 ^ b) + ToNat(a \ {b})

min(a, b) == IF a <= b THEN a ELSE b

----------------------------------------------------------------------------
(* Result<(), IndexError> *)

Ok == [ok |-> TRUE, err |-> <<>>]

USizeMatrix(ex, ey, x, y) == [ok |-> FALSE, err |-> <<ex, ey, x, y>>]

----------------------------------------------------------------------------
(* braille_char.rs *)

BrailleChar_VALUES == <<1, 2, 4, 64, 8, 16, 32, 128>>

BrailleChar_VALUES_INVERTED ==
    << Not(U32(1)), Not(U32(2)), Not(U32(4)), Not(U32(64)),
       Not(U32(8)), Not(U32(16)), Not(U32(32)), Not(U32(128)) >>

BrailleChar_new == [data |-> U32(0)]

with_data(data) == [data |-> U32(data)]

set_data(self, data) == [self EXCEPT !.data = data]

or_data_assign(self, data) == [self EXCEPT !.data = data]
or_data(self, data) == [self EXCEPT !.data = BitOr(@, data)]

xor_data_or(self, data) == [self EXCEPT !.data = BitOr(@, data)]
xor_data(self, data) == [self EXCEPT !.data = BitXor(@, data)]

and_data(self, data) == [self EXCEPT !.data = BitAnd(@, Not(data))]

BrailleChar_set_write_first(self, x, y) ==
    LET i == y + 4 * x
        written == or_data(self, U32(BrailleChar_VALUES[(i % 8) + 1]))
    IN IF i < 8
       THEN [self |-> written, res |-> Ok]
       ELSE [self |-> written, res |-> USizeMatrix(2, 4, x, y)]
BrailleChar_set(self, x, y) ==
    LET i == y + 4 * x IN
    IF i < 8
    THEN [self |-> or_data(self, U32(BrailleChar_VALUES[(y + 4 * x) + 1])), res |-> Ok]
    ELSE [self |-> self, res |-> USizeMatrix(2, 4, x, y)]

set_all(self) == set_data(self, U32(255))

BrailleChar_reset(self, x, y) ==
    LET i == y + 4 * x IN
    IF i < 8
    THEN [self |-> and_data(self, BrailleChar_VALUES_INVERTED[(y + 4 * x) + 1]), res |-> Ok]
    ELSE [self |-> self, res |-> USizeMatrix(2, 4, x, y)]

BrailleChar_reset_all(self) == [self EXCEPT !.data = U32(0)]

BrailleChar_flip(self, x, y) ==
    LET i == y + 4 * x IN
    IF i < 8
    THEN [self |-> xor_data(self, U32(BrailleChar_VALUES[(y + 4 * x) + 1])), res |-> Ok]
    ELSE [self |-> self, res |-> USizeMatrix(2, 4, x, y)]

flip_all(self) == [self EXCEPT !.data = BitXor(@, U32(255))]

\* char::from(&BrailleChar), as the code point of the char
BrailleChar_char(value) == ToNat(BitOr(U32(10240), BitAnd(value.data, U32(255))))

\* Display for BrailleChar: the string of that one char
BrailleChar_fmt(self) == << BrailleChar_char(self) >>

----------------------------------------------------------------------------
(* canvas.rs *)

Canvas_VALUES == <<1, 2, 4, 64, 8, 16, 32, 128>>

Canvas_VALUES_INVERTED ==
    << Not(U32(1)), Not(U32(2)), Not(U32(4)), Not(U32(64)),
       Not(U32(8)), Not(U32(16)), Not(U32(32)), Not(U32(128)) >>

None == [some |-> FALSE, i |-> 0]

Some(i) == [some |-> TRUE, i |-> i]

coords_to_index_rows(self, x, y) ==
    LET res == (x \div 2) + self.char_y * (y \div 4) IN
    IF res >= Len(self.data) THEN None ELSE Some(res)
coords_to_index(self, x, y) ==
    LET res == (x \div 2) + self.char_x * (y \div 4) IN
    IF res >= Len(self.data) THEN None ELSE Some(res)

Canvas_new == [x |-> 0, y |-> 0, char_x |-> 0, char_y |-> 0, data |-> <<>>]

with_size(x, y) ==
    LET char_x == (x \div 2) + min(x % 2, 1)
        char_y == (y \div 4) + min(y % 4, 1)
    IN [x |-> x, y |-> y, char_x |-> char_x, char_y |-> char_y,
        data |-> [k \in 1 .. (char_x * char_y) |-> U32(0)]]

Canvas_flip(self, x, y) ==
    LET r == coords_to_index(self, x, y) IN
    IF r.some
    THEN [self |-> [self EXCEPT !.data[r.i + 1] =
                        BitXor(@, U32(Canvas_VALUES[((y % 4) + (x % 2) * 4) + 1]))],
          res |-> Ok]
    ELSE [self |-> self, res |-> USizeMatrix(self.x, self.y, x, y)]

Canvas_reset(self, x, y) ==
    LET r == coords_to_index(self, x, y) IN
    IF r.some
    THEN [self |-> [self EXCEPT !.data[r.i + 1] =
                        BitAnd(@, Canvas_VALUES_INVERTED[((y % 4) + (x % 2) * 4) + 1])],
          res |-> Ok]
    ELSE [self |-> self, res |-> USizeMatrix(self.x, self.y, x, y)]

Canvas_reset_all(self) ==
    [self EXCEPT !.data = [k \in 1 .. Len(self.data) |-> BitAnd(self.data[k], Not(U32(255)))]]

Canvas_set(self, x, y) ==
    LET r == coords_to_index(self, x, y) IN
    IF r.some
    THEN [self |-> [self EXCEPT !.data[r.i + 1] =
                        BitOr(@, U32(Canvas_VALUES[((y % 4) + (x % 2) * 4) + 1]))],
          res |-> Ok]
    ELSE [self |-> self, res |-> USizeMatrix(self.x, self.y, x, y)]

\* char::is_whitespace, the White_Space code points that str::trim removes
is_whitespace(c) ==
    \/ c \in {9, 10, 11, 12, 13, 32, 133, 160, 5760, 8232, 8233, 8239, 8287, 12288}
    \/ c \in 8192 .. 8202

RECURSIVE trim_start(_)
trim_start(s) ==
    IF s # <<>> /\ is_whitespace(Head(s)) THEN trim_start(Tail(s)) ELSE s

RECURSIVE trim_end(_)
trim_end(s) ==
    IF s # <<>> /\ is_whitespace(s[Len(s)]) THEN trim_end(SubSeq(s, 1, Len(s) - 1)) ELSE s

trim(s) == trim_end(trim_start(s))

\* the test that ends a line after the cell of index i
row_end_first(self, i) == i % self.char_x = 0
row_end(self, i) == i % self.char_x = self.char_x - 1

RECURSIVE push_cells(_, _, _)
\* the loop of Display::fmt from the cell of index i on; a string is the sequence of its code points
push_cells(self, i, string) ==
    IF i >= Len(self.data) THEN string
    ELSE LET value == self.data[i + 1]
             s1 == Append(string, ToNat(BitOr(U32(10240), BitAnd(value, U32(255)))))
             s2 == IF row_end(self, i) THEN Append(s1, 10) ELSE s1
         IN push_cells(self, i + 1, s2)

Canvas_fmt(self) == trim(push_cells(self, 0, <<>>))

----------------------------------------------------------------------------
(* The caller: it owns one BrailleChar or one Canvas, calls its public      *)
(* methods, and remembers the last `keep` calls (object before the call,    *)
(* arguments, returned value), most recent first.                           *)

\* bytes given to BrailleChar::with_data
Bytes == 0 .. 255

\* bytes given to BrailleChar::with_data when two calls are remembered
PairBytes == {58, 132, 162, 255}

\* words given to BrailleChar::set_data: the example of its doc comment, and u32::MAX
RawWords == {U32(58), Not(U32(0))}

\* sizes given to Canvas::with_size
Sizes == {<<0, 3>>, <<1, 1>>, <<2, 4>>, <<3, 5>>, <<7, 10>>}

CellXs == 0 .. CellMaxX

CellYs == 0 .. CellMaxY

\* raw x tried on a canvas: first, last declared, first beyond the width, first beyond the cell grid
CanvasXs(c) == {v \in {0, c.x - 1, c.x, 2 * c.char_x} : v >= 0}

CanvasYs(c) == {v \in {0, c.y - 1, c.y, 4 * c.char_y} : v >= 0}

Call(op, x, y, res, out) == [op |-> op, x |-> x, y |-> y, res |-> res, out |-> out]

Budget == IF keep = 1 THEN MaxSteps ELSE MaxPairSteps

Remember(call) ==
    /\ steps < Budget
    /\ steps' = steps + 1
    /\ hist' = SubSeq(<<[bc |-> bc, canvas |-> canvas, call |-> call]>> \o hist,
                      1, min(keep, Len(hist) + 1))
    /\ UNCHANGED <<target, keep>>

Objects(bytes) ==
    \/ /\ target = "cell"
       /\ bc \in {BrailleChar_new} \cup {with_data(b) : b \in bytes}
       /\ canvas = Canvas_new
    \/ /\ target = "canvas"
       /\ bc = BrailleChar_new
       /\ canvas \in {Canvas_new} \cup {with_size(s[1], s[2]) : s \in Sizes}

Init ==
    /\ Objects(Bytes)
    /\ hist = <<>>
    /\ keep = 1
    /\ steps = 0

InitPairs ==
    /\ Objects(PairBytes)
    /\ hist = <<>>
    /\ keep = 2
    /\ steps = 0

BrailleCharSetData ==
    /\ target = "cell"
    /\ \E raw \in RawWords :
         /\ bc' = set_data(bc, raw)
         /\ Remember(Call("set_data", 0, 0, Ok, <<>>))
    /\ UNCHANGED canvas

BrailleCharSet ==
    /\ target = "cell"
    /\ \E x \in CellXs, y \in CellYs :
         LET r == BrailleChar_set(bc, x, y) IN
         /\ bc' = r.self
         /\ Remember(Call("set", x, y, r.res, <<>>))
    /\ UNCHANGED canvas

BrailleCharSetAll ==
    /\ target = "cell"
    /\ bc' = set_all(bc)
    /\ Remember(Call("set_all", 0, 0, Ok, <<>>))
    /\ UNCHANGED canvas

BrailleCharReset ==
    /\ target = "cell"
    /\ \E x \in CellXs, y \in CellYs :
         LET r == BrailleChar_reset(bc, x, y) IN
         /\ bc' = r.self
         /\ Remember(Call("reset", x, y, r.res, <<>>))
    /\ UNCHANGED canvas

BrailleCharResetAll ==
    /\ target = "cell"
    /\ bc' = BrailleChar_reset_all(bc)
    /\ Remember(Call("reset_all", 0, 0, Ok, <<>>))
    /\ UNCHANGED canvas

BrailleCharFlip ==
    /\ target = "cell"
    /\ \E x \in CellXs, y \in CellYs :
         LET r == BrailleChar_flip(bc, x, y) IN
         /\ bc' = r.self
         /\ Remember(Call("flip", x, y, r.res, <<>>))
    /\ UNCHANGED canvas

BrailleCharFlipAll ==
    /\ target = "cell"
    /\ bc' = flip_all(bc)
    /\ Remember(Call("flip_all", 0, 0, Ok, <<>>))
    /\ UNCHANGED canvas

BrailleCharFmt ==
    /\ target = "cell"
    /\ Remember(Call("fmt", 0, 0, Ok, BrailleChar_fmt(bc)))
    /\ UNCHANGED <<bc, canvas>>

CanvasFlip ==
    /\ target = "canvas"
    /\ \E x \in CanvasXs(canvas), y \in CanvasYs(canvas) :
         LET r == Canvas_flip(canvas, x, y) IN
         /\ canvas' = r.self
         /\ Remember(Call("flip", x, y, r.res, <<>>))
    /\ UNCHANGED bc

CanvasReset ==
    /\ target = "canvas"
    /\ \E x \in CanvasXs(canvas), y \in CanvasYs(canvas) :
         LET r == Canvas_reset(canvas, x, y) IN
         /\ canvas' = r.self
         /\ Remember(Call("reset", x, y, r.res, <<>>))
    /\ UNCHANGED bc

CanvasResetAll ==
    /\ target = "canvas"
    /\ canvas' = Canvas_reset_all(canvas)
    /\ Remember(Call("reset_all", 0, 0, Ok, <<>>))
    /\ UNCHANGED bc

CanvasSet ==
    /\ target = "canvas"
    /\ \E x \in CanvasXs(canvas), y \in CanvasYs(canvas) :
         LET r == Canvas_set(canvas, x, y) IN
         /\ canvas' = r.self
         /\ Remember(Call("set", x, y, r.res, <<>>))
    /\ UNCHANGED bc

CanvasFmt ==
    /\ target = "canvas"
    /\ Remember(Call("fmt", 0, 0, Ok, Canvas_fmt(canvas)))
    /\ UNCHANGED <<bc, canvas>>

Next ==
    \/ BrailleCharSetData
    \/ BrailleCharSet
    \/ BrailleCharSetAll
    \/ BrailleCharReset
    \/ BrailleCharResetAll
    \/ BrailleCharFlip
    \/ BrailleCharFlipAll
    \/ BrailleCharFmt
    \/ CanvasFlip
    \/ CanvasReset
    \/ CanvasResetAll
    \/ CanvasSet
    \/ CanvasFmt

Spec == Init /\ [][Next]_vars

SpecPairs == InitPairs /\ [][Next]_vars

----------------------------------------------------------------------------
(* Vocabulary of the properties *)

\* the weight table as the specification states it
W == <<1, 2, 4, 64, 8, 16, 32, 128>>

\* the bit position of a weight
BitOf(w) == CHOOSE b \in 0 .. 7 : 2 ^ b = w

\* the bit of the local coordinate (x, y)
LocalBit(x, y) == BitOf(W[(y + 4 * x) + 1])

PointOps == {"set", "reset", "flip"}

Called == Len(hist) >= 1

\* the most recent call and the objects it was made on
last == hist[1].call

before == hist[1]

\* what a point operation does to a word that holds bit b
Effect(op, word, b) ==
    CASE op = "set" -> word \cup {b}
      [] op = "reset" -> word \ {b}
      [] op = "flip" -> IF b \in word THEN word \ {b} ELSE word \cup {b}

CellPointCall == Called /\ target = "cell" /\ last.op \in PointOps

CanvasPointCall == Called /\ target = "canvas" /\ last.op \in PointOps

----------------------------------------------------------------------------
\* C1: on any BrailleChar, reset(x, y) with x in {0,1} and y in 0..3 succeeds and
\* leaves data = d AND NOT W[y+4x]: the bit of (x, y) is cleared, every other bit is kept.
C1_ResetClearsOnlyItsBit ==
    (CellPointCall /\ last.op = "reset" /\ last.x \in {0, 1} /\ last.y \in 0 .. 3)
        => /\ last.res.ok
           /\ bc.data = before.bc.data \ {LocalBit(last.x, last.y)}

\* C2: on any BrailleChar, set, reset and flip at (x, y) with x >= 2 or y >= 4
\* return IndexError(2, 4, x, y); (0,4) .. (0,7) in particular are rejected.
C2_CellRejectsOutside2x4 ==
    (CellPointCall /\ (last.x >= 2 \/ last.y >= 4))
        => /\ ~last.res.ok
           /\ last.res.err = <<2, 4, last.x, last.y>>

\* C3: on a Canvas(w, h), set, reset and flip at a point with y >= h return
\* IndexError(w, h, x, y).
C3_CanvasRejectsYBeyondHeight ==
    (CanvasPointCall /\ last.y >= before.canvas.y)
        => /\ ~last.res.ok
           /\ last.res.err = <<before.canvas.x, before.canvas.y, last.x, last.y>>

\* C4: set(x, y) and then reset(x, y) on a blank BrailleChar, x in {0,1}, y in 0..3,
\* leaves a blank BrailleChar.
C4_SetThenResetIsBlank ==
    ( /\ Len(hist) = 2 /\ target = "cell"
      /\ hist[2].bc.data = {}
      /\ hist[2].call.op = "set" /\ last.op = "reset"
      /\ last.x = hist[2].call.x /\ last.y = hist[2].call.y
      /\ last.x \in {0, 1} /\ last.y \in 0 .. 3 )
        => /\ hist[2].call.res.ok /\ last.res.ok
           /\ bc.data = {}

\* set(0,0) and then set(1,3) have been called on a blank BrailleChar
C5_Case ==
    /\ Len(hist) = 2 /\ target = "cell"
    /\ hist[2].bc.data = {}
    /\ hist[2].call.op = "set" /\ hist[2].call.x = 0 /\ hist[2].call.y = 0
    /\ last.op = "set" /\ last.x = 1 /\ last.y = 3

\* C5 (as stated): from a blank BrailleChar, set(0,0) then set(1,3) both succeed and
\* leave data = 0b10000100 = 132.
C5_SetTwoPointsIs132 ==
    C5_Case => /\ hist[2].call.res.ok /\ last.res.ok
               /\ ToNat(bc.data) = 132

\* C5 (amended): from a blank BrailleChar, set(0,0) then set(1,3) both succeed and
\* leave data = 0b10000001 = 129.
C5_SetTwoPointsIs129 ==
    C5_Case => /\ hist[2].call.res.ok /\ last.res.ok
               /\ ToNat(bc.data) = 129

C5_Witness == C5_Case /\ last.res.ok /\ bc.data = {0, 7}

----------------------------------------------------------------------------
\* ceiling divisions of the declared size
CeilDiv(n, d) == (n + d - 1) \div d

\* the cell (1-based position in data) and the bit that own the raw point (x, y)
OwnerCell(c, x, y) == (x \div 2) + CeilDiv(c.x, 2) * (y \div 4) + 1

OwnerBit(x, y) == BitOf(W[((y % 4) + 4 * (x % 2)) + 1])

\* C6: on a Canvas(w, h), set, reset and flip at a point with x < w and y < h succeed and
\* change only the bit of weight W[(y mod 4) + 4 (x mod 2)] of the cell at index
\* x/2 + cell_columns * (y/4) (set ORs it in, reset clears it, flip toggles it); all other
\* bits, all other cells and the four dimensions are unchanged. On Canvas(7,10), (0,0) is
\* cell 0 weight 1 and (6,9) is cell 11 weight 2.
C6_CanvasPointOpTouchesOneBit ==
    (CanvasPointCall /\ last.x < before.canvas.x /\ last.y < before.canvas.y)
        => LET old == before.canvas
               k == OwnerCell(old, last.x, last.y)
           IN /\ last.res.ok
              /\ canvas.x = old.x /\ canvas.y = old.y
              /\ canvas.char_x = old.char_x /\ canvas.char_y = old.char_y
              /\ Len(canvas.data) = Len(old.data)
              /\ k \in 1 .. Len(old.data)
              /\ canvas.data[k] = Effect(last.op, old.data[k], OwnerBit(last.x, last.y))
              /\ \A j \in 1 .. Len(old.data) : j # k => canvas.data[j] = old.data[j]
              /\ (old.x = 7 /\ old.y = 10 /\ last.x = 0 /\ last.y = 0)
                    => (k = 1 /\ OwnerBit(last.x, last.y) = 0)
              /\ (old.x = 7 /\ old.y = 10 /\ last.x = 6 /\ last.y = 9)
                    => (k = 12 /\ k = Len(old.data) /\ OwnerBit(last.x, last.y) = 1)

C6_Witness ==
    /\ CanvasPointCall /\ steps >= 2
    /\ before.canvas.x = 7 /\ before.canvas.y = 10
    /\ last.op = "reset" /\ last.x = 6 /\ last.y = 9 /\ last.res.ok
    /\ 1 \in before.canvas.data[12]
    /\ 1 \notin canvas.data[12]

\* C7: when set, reset or flip on a BrailleChar or on a Canvas returns an IndexError,
\* the object is exactly as it was before the call.
C7_FailedCallChangesNothing ==
    (Called /\ last.op \in PointOps /\ ~last.res.ok)
        => /\ bc = before.bc
           /\ canvas = before.canvas

C7_Witness ==
    /\ CanvasPointCall /\ steps >= 2
    /\ ~last.res.ok
    /\ \E j \in 1 .. Len(canvas.data) : canvas.data[j] # {}
    /\ canvas = before.canvas

\* the last two calls were flip at the same point and both succeeded
FlippedTwice ==
    /\ Len(hist) = 2
    /\ hist[2].call.op = "flip" /\ last.op = "flip"
    /\ hist[2].call.x = last.x /\ hist[2].call.y = last.y
    /\ hist[2].call.res.ok /\ last.res.ok

Low8(word) == ToNat(word \cap (0 .. 7))

\* C9: a Canvas(w, h) with w, h >= 1 renders as ceil(h/4) lines of ceil(w/2) characters,
\* lines separated by one newline, none leading or trailing, the k-th character of line r
\* being 0x2800 + the low 8 bits of cell r * cell_columns + k; a blank Canvas(2,4) renders
\* as U+2800 alone, and a zero-sized canvas as the empty string.
C9_RenderIsTheCellGrid ==
    (Called /\ target = "canvas" /\ last.op = "fmt")
        => LET cols == CeilDiv(canvas.x, 2)
               rows == CeilDiv(canvas.y, 4)
               out == last.out
           IN /\ (canvas.x >= 1 /\ canvas.y >= 1) =>
                    /\ canvas.char_x = cols /\ canvas.char_y = rows
                    /\ Len(out) = rows * cols + (rows - 1)
                    /\ \A r \in 0 .. (rows - 1) :
                         /\ \A k \in 0 .. (cols - 1) :
                              out[r * (cols + 1) + k + 1] =
                                  10240 + Low8(canvas.data[r * cols + k + 1])
                         /\ r < rows - 1 => out[r * (cols + 1) + cols + 1] = 10
              /\ (canvas.x = 2 /\ canvas.y = 4 /\ canvas.data = <<{}>>) => out = <<10240>>
              /\ (canvas.x = 0 \/ canvas.y = 0) => out = <<>>

C9_Witness ==
    /\ Called /\ target = "canvas" /\ last.op = "fmt"
    /\ canvas.x = 7 /\ canvas.y = 10
    /\ canvas.data[12] = {1}
    /\ Len(last.out) = 14
    /\ last.out[14] = 10242
    /\ last.out[5] = 10 /\ last.out[10] = 10

\* C10: a point a Canvas accepts lies inside the cell grid: x < 2 cell_columns and
\* y < 4 cell_rows, and the cell that changes is the one at column x/2 of row y/4; an x
\* at or beyond 2 cell_columns is never accepted.
C10_AcceptedPointIsInsideGrid ==
    (CanvasPointCall /\ last.res.ok)
        => /\ last.x < 2 * before.canvas.char_x
           /\ last.y < 4 * before.canvas.char_y
           /\ \A j \in 1 .. Len(canvas.data) :
                canvas.data[j] # before.canvas.data[j]
                    => /\ (j - 1) % before.canvas.char_x = last.x \div 2
                       /\ (j - 1) \div before.canvas.char_x = last.y \div 4

====
